---- MODULE Spec2Model ----
(***************************************************************************)
(* State-machine model of the ACP Healthcare Insurance System API          *)
(* (src/main_system.py): the database tables users, insurance_plans,       *)
(* policies, claims and payments, and one action per request handler.      *)
(* A handler runs as one step: dependencies (authentication, role check),  *)
(* request validation, then the handler body up to its commit.             *)
(* Rows carry the columns the handlers read or decide; free-text payload   *)
(* columns and the audit timestamps created_at / updated_at are left out.  *)
(* Requests that run side by side are modelled in two steps, the queries   *)
(* of the handler and then its commit, with the request kept in inflight   *)
(* between them.                                                           *)
(***************************************************************************)
EXTENDS Integers, Sequences, FiniteSets, TLC

VARIABLES users, plans, policies, claims, payments, inflight

vars == <<users, plans, policies, claims, payments, inflight>>

----------------------------------------------------------------------------
(* Bounds of the model *)

\* rows of the users table, the default admin included
MaxUsers == 2
\* rows of the insurance_plans table
MaxPlans == 1
\* rows of the policies, claims and payments tables, taken together
MaxRows == 2
\* the largest valid request amount
MaxAmount == 1
\* the number of distinct clock readings
MaxTime == 1
\* requests that run side by side
MaxInFlight == 2
\* rows of each numbered table (policies, claims, payments) where the
\* numbers are studied
MaxNumbered == 2

----------------------------------------------------------------------------
(* Enumerations and input domains *)

UserRole == {"admin", "agent", "customer", "provider"}

PolicyStatus == {"active", "pending", "expired", "cancelled"}

ClaimStatus == {"submitted", "under_review", "approved", "rejected", "paid"}

\* an unset optional string or enum field of a request
None == "None"

\* a NULL integer or datetime column (ids and clock readings start at 1)
Null == 0

\* an optional number of a request: unset, or one value
Unset == << >>
Some(v) == << v >>

\* usernames and e-mail addresses are numbered; 1 is the default admin's
Names == 1..MaxUsers

\* readings of datetime.utcnow()
Times == 1..MaxTime

\* request amounts; 0 stands for every value the gt=0 validators reject
Amounts == 0..MaxAmount

\* approved amounts a review may name: ClaimUpdate puts no bound on them,
\* so they range past the largest claim amount
ApprovedAmounts == 0..(MaxAmount + 1)

\* plan premiums: a monthly price, and an annual price of twelve months
MonthlyPremiums == Amounts
AnnualPremiums == {12 * v : v \in Amounts}

\* policy start dates, as day numbers counted from 2024-01-01 (day 1)
StartDates == {1, 2}

PaymentFrequency == {"monthly", "annual"}

\* outcomes of random.choices(string.digits, k=10) for each kind of number
PolicyNumbers == 1..MaxRows
ClaimNumbers == 1..(MaxRows - 1)
PaymentReferences == 1..(MaxRows - 1)

\* ids a request may name: the rows there can be, and one past them
UserIds == 1..MaxUsers
PlanIds == 1..MaxPlans
PolicyIds == 1..MaxRows
ClaimIds == 1..(MaxRows - 1)

\* the caller of a request: a user id the bearer token resolves to, or 0
\* when the token is missing, invalid or names no user
Anonymous == 0
Callers == {Anonymous} \cup UserIds

----------------------------------------------------------------------------
(* Responses: the kind of outcome of a request, and its HTTP status code *)

OK == "OK"
Unauthorized == "Unauthorized"
InactiveUser == "InactiveUser"
Forbidden == "Forbidden"
NotFound == "NotFound"
PolicyNotActive == "PolicyNotActive"
Conflict == "Conflict"
ValidationError == "ValidationError"
IntegrityError == "IntegrityError"

StatusCode(kind) ==
    CASE kind = OK -> 200
      [] kind = Unauthorized -> 401
      [] kind = InactiveUser -> 400
      [] kind = Forbidden -> 403
      [] kind = NotFound -> 404
      [] kind = PolicyNotActive -> 400
      [] kind = Conflict -> 400
      [] kind = ValidationError -> 422
      [] kind = IntegrityError -> 500

----------------------------------------------------------------------------
(* Dependencies *)

\* get_current_user: 401 unless the token names an existing user
get_current_user(caller) ==
    IF caller \in 1..Len(users) THEN OK ELSE Unauthorized

\* get_current_active_user without its test of is_active (a faulty variant,
\* which C28 must reject)
get_current_active_user_NoActiveCheck(caller) == get_current_user(caller)

\* get_current_active_user: 400 for a deactivated user
get_current_active_user(caller) ==
    IF get_current_user(caller) # OK THEN get_current_user(caller)
    ELSE IF ~users[caller].is_active THEN InactiveUser
    ELSE OK

\* check_admin without its role test (a faulty variant, which C7 must reject)
check_admin_NoRoleCheck(caller) == get_current_active_user(caller)

\* check_admin: 403 unless the active caller's role is admin
check_admin(caller) ==
    IF get_current_active_user(caller) # OK THEN get_current_active_user(caller)
    ELSE IF users[caller].role # "admin" THEN Forbidden
    ELSE OK

----------------------------------------------------------------------------
(* Initial state: empty tables plus the default admin created at startup *)

Init ==
    /\ users = << [username |-> 1, email |-> 1, role |-> "admin", is_active |-> TRUE] >>
    /\ plans = << >>
    /\ policies = << >>
    /\ claims = << >>
    /\ payments = << >>
    /\ inflight = << >>

----------------------------------------------------------------------------
(* Table helpers *)

ReplaceRow(table, id, row) == [table EXCEPT ![id] = row]

\* a request that fails raises before any assignment: nothing is written
Rejected == UNCHANGED vars

----------------------------------------------------------------------------
(* Authentication endpoints *)

\* POST /register: its response
register_response(username, email, role) ==
    IF \E i \in 1..Len(users) :
           users[i].email = email \/ users[i].username = username
    THEN Conflict
    ELSE OK

\* the role of a UserCreate body: the role sent, or the default of the field
\* when the body has none
UserCreate_role(role) == IF role = None THEN "customer" ELSE role

\* register storing every user as a customer (a faulty variant, which C27
\* must reject)
register_CustomerOnly(username, email, role) ==
    IF register_response(username, email, role) # OK
    THEN Rejected
    ELSE /\ /\ users' = Append(users, [username |-> username, email |-> email,
                                    role |-> "customer", is_active |-> TRUE])
         /\ UNCHANGED <<plans, policies, claims, payments, inflight>>

\* POST /register
register(username, email, role) ==
    IF register_response(username, email, role) # OK
    THEN Rejected
    ELSE /\ /\ users' = Append(users, [username |-> username, email |-> email,
                                    role |-> UserCreate_role(role),
                                    is_active |-> TRUE])
         /\ UNCHANGED <<plans, policies, claims, payments, inflight>>

\* authenticate_user: the user of that username, when the password verifies
authenticate_user(username, password_ok) ==
    LET found == {i \in 1..Len(users) : users[i].username = username}
    IN  IF found = {} \/ ~password_ok THEN Null ELSE CHOOSE i \in found : TRUE

\* POST /token: its response
login_response(username, password_ok) ==
    IF authenticate_user(username, password_ok) = Null THEN Unauthorized ELSE OK

\* POST /token: issues a token and writes nothing
login(username, password_ok) ==
    /\ login_response(username, password_ok) \in {OK, Unauthorized}
    /\ UNCHANGED vars

----------------------------------------------------------------------------
(* Insurance plans *)

\* copay_percentage of a plan created without one: Field(20, ge=0, le=100)
DefaultCopayPercentage == 20

\* POST /plans: its response
create_plan_response(caller, monthly_premium, annual_premium) ==
    IF check_admin(caller) # OK THEN check_admin(caller)
    ELSE IF monthly_premium <= 0 \/ annual_premium <= 0 THEN ValidationError
    ELSE OK

\* POST /plans
create_plan(caller, monthly_premium, annual_premium) ==
    IF create_plan_response(caller, monthly_premium, annual_premium) # OK
    THEN Rejected
    ELSE /\ /\ plans' = Append(plans, [monthly_premium |-> monthly_premium,
                                    annual_premium |-> annual_premium,
                                    copay_percentage |-> DefaultCopayPercentage,
                                    is_active |-> TRUE])
         /\ UNCHANGED <<users, policies, claims, payments, inflight>>

----------------------------------------------------------------------------
(* Policies *)

\* POST /policies: its response
create_policy_response(caller, plan_id, start_date, payment_frequency, number) ==
    IF get_current_active_user(caller) # OK THEN get_current_active_user(caller)
    ELSE IF plan_id \notin 1..Len(plans) THEN NotFound
    ELSE IF \E i \in 1..Len(policies) : policies[i].policy_number = number
    THEN IntegrityError
    ELSE OK

\* create_policy charging the monthly premium whatever the payment frequency
\* (a faulty variant, which C13 must reject)
create_policy_MonthlyPremium(caller, plan_id, start_date, payment_frequency, number) ==
    IF create_policy_response(caller, plan_id, start_date, payment_frequency,
                              number) # OK
    THEN Rejected
    ELSE /\ /\ policies' = Append(policies,
                [policy_number |-> number,
                 user_id |-> caller,
                 plan_id |-> plan_id,
                 start_date |-> start_date,
                 end_date |-> start_date + 365,
                 premium_amount |-> plans[plan_id].monthly_premium,
                 payment_frequency |-> payment_frequency,
                 status |-> "pending"])
         /\ UNCHANGED <<users, plans, claims, payments, inflight>>

\* create_policy counting a year of 366 days (a faulty variant, which C14
\* must reject)
create_policy_LeapYear(caller, plan_id, start_date, payment_frequency, number) ==
    IF create_policy_response(caller, plan_id, start_date, payment_frequency,
                              number) # OK
    THEN Rejected
    ELSE /\ /\ policies' = Append(policies,
                [policy_number |-> number,
                 user_id |-> caller,
                 plan_id |-> plan_id,
                 start_date |-> start_date,
                 end_date |-> start_date + 366,
                 premium_amount |-> IF payment_frequency = "monthly"
                                    THEN plans[plan_id].monthly_premium
                                    ELSE plans[plan_id].annual_premium,
                 payment_frequency |-> payment_frequency,
                 status |-> "pending"])
         /\ UNCHANGED <<users, plans, claims, payments, inflight>>

\* POST /policies
create_policy(caller, plan_id, start_date, payment_frequency, number) ==
    IF create_policy_response(caller, plan_id, start_date, payment_frequency,
                              number) # OK
    THEN Rejected
    ELSE /\ /\ policies' = Append(policies,
                [policy_number |-> number,
                 user_id |-> caller,
                 plan_id |-> plan_id,
                 start_date |-> start_date,
                 end_date |-> start_date + 365,
                 premium_amount |-> IF payment_frequency = "monthly"
                                    THEN plans[plan_id].monthly_premium
                                    ELSE plans[plan_id].annual_premium,
                 payment_frequency |-> payment_frequency,
                 status |-> "pending"])
         /\ UNCHANGED <<users, plans, claims, payments, inflight>>

\* PATCH /policies/{policy_id}/activate: its response
activate_policy_response(caller, policy_id) ==
    IF check_admin(caller) # OK THEN check_admin(caller)
    ELSE IF policy_id \notin 1..Len(policies) THEN NotFound
    ELSE OK

\* activate_policy flipping an active policy back to pending (a faulty
\* variant, which C6 must reject)
activate_policy_Toggle(caller, policy_id) ==
    IF activate_policy_response(caller, policy_id) # OK
    THEN Rejected
    ELSE /\ policies' = ReplaceRow(policies, policy_id,
                [policies[policy_id] EXCEPT
                    !.status = IF @ = "active" THEN "pending" ELSE "active"])
         /\ UNCHANGED <<users, plans, claims, payments, inflight>>

\* activate_policy writing the status of every policy, not of the one named
\* (a faulty variant, which C8 must reject)
activate_policy_AllRows(caller, policy_id) ==
    IF activate_policy_response(caller, policy_id) # OK
    THEN Rejected
    ELSE /\ policies' = [q \in 1..Len(policies) |->
                            [policies[q] EXCEPT !.status = "active"]]
         /\ UNCHANGED <<users, plans, claims, payments, inflight>>

\* PATCH /policies/{policy_id}/activate
activate_policy(caller, policy_id) ==
    IF activate_policy_response(caller, policy_id) # OK
    THEN Rejected
    ELSE /\ policies' = ReplaceRow(policies, policy_id,
                [policies[policy_id] EXCEPT !.status = "active"])
         /\ UNCHANGED <<users, plans, claims, payments, inflight>>

----------------------------------------------------------------------------
(* Claims *)

\* create_claim's response without the test of the policy's status (a
\* faulty variant, which C5 must reject)
create_claim_response_NoStatusCheck(caller, policy_id, claim_amount, number) ==
    IF get_current_active_user(caller) # OK THEN get_current_active_user(caller)
    ELSE IF claim_amount <= 0 THEN ValidationError
    ELSE IF policy_id \notin 1..Len(policies) THEN NotFound
    ELSE IF policies[policy_id].user_id # caller /\ users[caller].role # "admin"
    THEN Forbidden
    ELSE IF \E i \in 1..Len(claims) : claims[i].claim_number = number
    THEN IntegrityError
    ELSE OK

\* create_claim's response without the gt=0 validator of claim_amount (a
\* faulty variant, which C23 must reject)
create_claim_response_NoAmountCheck(caller, policy_id, claim_amount, number) ==
    IF get_current_active_user(caller) # OK THEN get_current_active_user(caller)
    ELSE IF policy_id \notin 1..Len(policies) THEN NotFound
    ELSE IF policies[policy_id].user_id # caller /\ users[caller].role # "admin"
    THEN Forbidden
    ELSE IF policies[policy_id].status # "active" THEN PolicyNotActive
    ELSE IF \E i \in 1..Len(claims) : claims[i].claim_number = number
    THEN IntegrityError
    ELSE OK

\* create_claim's response on a claims table without the unique index of
\* claim_number (a faulty variant, which C20 must reject)
create_claim_response_NoUniqueIndex(caller, policy_id, claim_amount, number) ==
    IF get_current_active_user(caller) # OK THEN get_current_active_user(caller)
    ELSE IF claim_amount <= 0 THEN ValidationError
    ELSE IF policy_id \notin 1..Len(policies) THEN NotFound
    ELSE IF policies[policy_id].user_id # caller /\ users[caller].role # "admin"
    THEN Forbidden
    ELSE IF policies[policy_id].status # "active" THEN PolicyNotActive
    ELSE OK

\* POST /claims: its response
create_claim_response(caller, policy_id, claim_amount, number) ==
    IF get_current_active_user(caller) # OK THEN get_current_active_user(caller)
    ELSE IF claim_amount <= 0 THEN ValidationError
    ELSE IF policy_id \notin 1..Len(policies) THEN NotFound
    ELSE IF policies[policy_id].user_id # caller /\ users[caller].role # "admin"
    THEN Forbidden
    ELSE IF policies[policy_id].status # "active" THEN PolicyNotActive
    ELSE IF \E i \in 1..Len(claims) : claims[i].claim_number = number
    THEN IntegrityError
    ELSE OK

\* create_claim storing the policy's owner as the claim's owner (a faulty
\* variant, which C29 must reject)
create_claim_OwnedByPolicyOwner(caller, policy_id, claim_amount, number) ==
    IF create_claim_response(caller, policy_id, claim_amount, number) # OK
    THEN Rejected
    ELSE /\ claims' = Append(claims,
                [claim_number |-> number,
                 user_id |-> policies[policy_id].user_id,
                 policy_id |-> policy_id,
                 claim_amount |-> claim_amount,
                 approved_amount |-> 0,
                 status |-> "submitted",
                 reviewed_by |-> Null,
                 review_date |-> Null])
         /\ UNCHANGED <<users, plans, policies, payments, inflight>>

\* POST /claims
create_claim(caller, policy_id, claim_amount, number) ==
    IF create_claim_response(caller, policy_id, claim_amount, number) # OK
    THEN Rejected
    ELSE /\ /\ claims' = Append(claims,
                [claim_number |-> number,
                 user_id |-> caller,
                 policy_id |-> policy_id,
                 claim_amount |-> claim_amount,
                 approved_amount |-> 0,
                 status |-> "submitted",
                 reviewed_by |-> Null,
                 review_date |-> Null])
         /\ UNCHANGED <<users, plans, policies, payments, inflight>>

\* update_claim's response without the role test (a faulty variant,
\* which C10 must reject)
update_claim_response_NoRoleCheck(caller, claim_id, status, approved_amount, now) ==
    IF get_current_active_user(caller) # OK THEN get_current_active_user(caller)
    ELSE IF claim_id \notin 1..Len(claims) THEN NotFound
    ELSE OK

\* PATCH /claims/{claim_id}: its response
update_claim_response(caller, claim_id, status, approved_amount, now) ==
    IF get_current_active_user(caller) # OK THEN get_current_active_user(caller)
    ELSE IF claim_id \notin 1..Len(claims) THEN NotFound
    ELSE IF users[caller].role \notin {"admin", "agent"} THEN Forbidden
    ELSE OK

\* the assignments of update_claim, from the fields the request sets
ApplyClaimUpdate(claim, caller, status, approved_amount, now) ==
    LET c1 == IF status # None
              THEN [claim EXCEPT !.status = status,
                                 !.reviewed_by = caller,
                                 !.review_date = now]
              ELSE claim
    IN  IF approved_amount # Unset
        THEN [c1 EXCEPT !.approved_amount = approved_amount[1]]
        ELSE c1

\* update_claim assigning the status before its role test, so that a
\* request refused with 403 leaves the new status behind (a faulty variant,
\* which C12 must reject)
update_claim_WritesBeforeRoleCheck(caller, claim_id, status, approved_amount, now) ==
    IF update_claim_response(caller, claim_id, status, approved_amount, now)
           \notin {OK, Forbidden}
    THEN Rejected
    ELSE /\ claims' = ReplaceRow(claims, claim_id,
                IF update_claim_response(caller, claim_id, status,
                                         approved_amount, now) = OK
                THEN ApplyClaimUpdate(claims[claim_id], caller, status,
                                      approved_amount, now)
                ELSE IF status # None
                THEN [claims[claim_id] EXCEPT !.status = status]
                ELSE claims[claim_id])
         /\ UNCHANGED <<users, plans, policies, payments, inflight>>

\* PATCH /claims/{claim_id}
update_claim(caller, claim_id, status, approved_amount, now) ==
    IF update_claim_response(caller, claim_id, status, approved_amount, now) # OK
    THEN Rejected
    ELSE /\ claims' = ReplaceRow(claims, claim_id,
                ApplyClaimUpdate(claims[claim_id], caller, status,
                                 approved_amount, now))
         /\ UNCHANGED <<users, plans, policies, payments, inflight>>

----------------------------------------------------------------------------
(* Payments *)

\* create_payment's response without the ownership test (a faulty variant,
\* which C9 must reject)
create_payment_response_NoOwnerCheck(caller, policy_id, amount, reference) ==
    IF get_current_active_user(caller) # OK THEN get_current_active_user(caller)
    ELSE IF amount <= 0 THEN ValidationError
    ELSE IF policy_id \notin 1..Len(policies) THEN NotFound
    ELSE IF \E i \in 1..Len(payments) : payments[i].payment_reference = reference
    THEN IntegrityError
    ELSE OK

\* POST /payments: its response
create_payment_response(caller, policy_id, amount, reference) ==
    IF get_current_active_user(caller) # OK THEN get_current_active_user(caller)
    ELSE IF amount <= 0 THEN ValidationError
    ELSE IF policy_id \notin 1..Len(policies) THEN NotFound
    ELSE IF policies[policy_id].user_id # caller /\ users[caller].role # "admin"
    THEN Forbidden
    ELSE IF \E i \in 1..Len(payments) : payments[i].payment_reference = reference
    THEN IntegrityError
    ELSE OK

\* create_payment applying the payment against the policy's approved
\* claims, which it marks paid (a faulty variant, which C21 must reject)
create_payment_SettlesClaims(caller, policy_id, amount, reference) ==
    IF create_payment_response(caller, policy_id, amount, reference) # OK
    THEN Rejected
    ELSE /\ payments' = Append(payments,
                [payment_reference |-> reference,
                 user_id |-> caller,
                 policy_id |-> policy_id,
                 amount |-> amount,
                 status |-> "completed"])
         /\ claims' = [cl \in 1..Len(claims) |->
                IF claims[cl].policy_id = policy_id /\ claims[cl].status = "approved"
                THEN [claims[cl] EXCEPT !.status = "paid"]
                ELSE claims[cl]]
         /\ UNCHANGED <<users, plans, policies, inflight>>

\* POST /payments
create_payment(caller, policy_id, amount, reference) ==
    IF create_payment_response(caller, policy_id, amount, reference) # OK
    THEN Rejected
    ELSE /\ /\ payments' = Append(payments,
                [payment_reference |-> reference,
                 user_id |-> caller,
                 policy_id |-> policy_id,
                 amount |-> amount,
                 status |-> "completed"])
         /\ UNCHANGED <<users, plans, policies, claims, inflight>>

----------------------------------------------------------------------------
(* Admin *)

\* PATCH /admin/users/{user_id}/deactivate: its response
deactivate_user_response(caller, user_id) ==
    IF check_admin(caller) # OK THEN check_admin(caller)
    ELSE IF user_id \notin 1..Len(users) THEN NotFound
    ELSE OK

\* deactivate_user also taking the user's role away (a faulty variant,
\* which C22 must reject)
deactivate_user_Demotes(caller, user_id) ==
    IF deactivate_user_response(caller, user_id) # OK
    THEN Rejected
    ELSE /\ users' = ReplaceRow(users, user_id,
                [users[user_id] EXCEPT !.is_active = FALSE,
                                       !.role = "customer"])
         /\ UNCHANGED <<plans, policies, claims, payments, inflight>>

\* deactivate_user also cancelling the user's policies (a faulty variant,
\* which C25 must reject)
deactivate_user_CancelsPolicies(caller, user_id) ==
    IF deactivate_user_response(caller, user_id) # OK
    THEN Rejected
    ELSE /\ users' = ReplaceRow(users, user_id,
                [users[user_id] EXCEPT !.is_active = FALSE])
         /\ policies' = [q \in 1..Len(policies) |->
                IF policies[q].user_id = user_id
                THEN [policies[q] EXCEPT !.status = "cancelled"]
                ELSE policies[q]]
         /\ UNCHANGED <<plans, claims, payments, inflight>>

\* deactivate_user deleting the row (a faulty variant, which C19 must
\* reject)
deactivate_user_DeletesRow(caller, user_id) ==
    IF deactivate_user_response(caller, user_id) # OK
    THEN Rejected
    ELSE /\ users' = SubSeq(users, 1, user_id - 1)
                        \o SubSeq(users, user_id + 1, Len(users))
         /\ UNCHANGED <<plans, policies, claims, payments, inflight>>

\* PATCH /admin/users/{user_id}/deactivate
deactivate_user(caller, user_id) ==
    IF deactivate_user_response(caller, user_id) # OK
    THEN Rejected
    ELSE /\ users' = ReplaceRow(users, user_id,
                [users[user_id] EXCEPT !.is_active = FALSE])
         /\ UNCHANGED <<plans, policies, claims, payments, inflight>>

----------------------------------------------------------------------------
(* Read endpoints: they query the tables and write nothing *)

ReadOnly(response) ==
    /\ response \in {OK, Unauthorized, InactiveUser, Forbidden, NotFound}
    /\ UNCHANGED vars

\* GET /
root_response == OK
root == ReadOnly(root_response)

\* GET /health
health_check_response == OK
health_check == ReadOnly(health_check_response)

\* GET /me
read_users_me_response(caller) == get_current_active_user(caller)
read_users_me(caller) == ReadOnly(read_users_me_response(caller))

\* GET /plans
get_plans_response == OK
get_plans == ReadOnly(get_plans_response)

\* GET /plans/{plan_id}
get_plan_response(plan_id) ==
    IF plan_id \notin 1..Len(plans) THEN NotFound ELSE OK
get_plan(plan_id) == ReadOnly(get_plan_response(plan_id))

\* GET /policies
get_policies_response(caller) == get_current_active_user(caller)
get_policies(caller) == ReadOnly(get_policies_response(caller))

\* GET /policies/{policy_id}
get_policy_response(caller, policy_id) ==
    IF get_current_active_user(caller) # OK THEN get_current_active_user(caller)
    ELSE IF policy_id \notin 1..Len(policies) THEN NotFound
    ELSE IF users[caller].role # "admin" /\ policies[policy_id].user_id # caller
    THEN Forbidden
    ELSE OK
get_policy(caller, policy_id) == ReadOnly(get_policy_response(caller, policy_id))

\* GET /claims
get_claims_response(caller) == get_current_active_user(caller)
get_claims(caller) == ReadOnly(get_claims_response(caller))

\* get_claim's response with the query of the claim ahead of the
\* authentication (a faulty variant, which C18 must reject)
get_claim_response_QueryFirst(caller, claim_id) ==
    IF claim_id \notin 1..Len(claims) THEN NotFound
    ELSE IF get_current_active_user(caller) # OK
    THEN get_current_active_user(caller)
    ELSE IF users[caller].role # "admin" /\ claims[claim_id].user_id # caller
    THEN Forbidden
    ELSE OK

\* GET /claims/{claim_id}
get_claim_response(caller, claim_id) ==
    IF get_current_active_user(caller) # OK THEN get_current_active_user(caller)
    ELSE IF claim_id \notin 1..Len(claims) THEN NotFound
    ELSE IF users[caller].role # "admin" /\ claims[claim_id].user_id # caller
    THEN Forbidden
    ELSE OK
get_claim(caller, claim_id) == ReadOnly(get_claim_response(caller, claim_id))

\* GET /payments
get_payments_response(caller) == get_current_active_user(caller)
get_payments(caller) == ReadOnly(get_payments_response(caller))

\* GET /dashboard/stats
get_dashboard_stats_response(caller) == get_current_active_user(caller)
get_dashboard_stats(caller) == ReadOnly(get_dashboard_stats_response(caller))

\* GET /admin/users
get_all_users_response(caller) == check_admin(caller)
get_all_users(caller) == ReadOnly(get_all_users_response(caller))

\* GET /reports/claims-summary
get_claims_summary_response(caller) == get_current_active_user(caller)
get_claims_summary(caller) == ReadOnly(get_claims_summary_response(caller))

\* GET /reports/revenue-summary
get_revenue_summary_response(caller) == check_admin(caller)
get_revenue_summary(caller) == ReadOnly(get_revenue_summary_response(caller))

----------------------------------------------------------------------------
(* Specification *)

RowCount == Len(policies) + Len(claims) + Len(payments)

\* a request that creates a row is taken only while the table bounds allow
\* the row; a request that fails is always taken
Room(response, free) == response = OK => free

Register ==
    \E u \in Names, e \in Names, r \in UserRole \cup {None} :
        /\ Room(register_response(u, e, r), Len(users) < MaxUsers)
        /\ register(u, e, r)

Login == \E u \in Names, ok \in BOOLEAN : login(u, ok)

CreatePlan ==
    \E c \in Callers, m \in MonthlyPremiums, a \in AnnualPremiums :
        /\ Room(create_plan_response(c, m, a), Len(plans) < MaxPlans)
        /\ create_plan(c, m, a)

CreatePolicy ==
    \E c \in Callers, pl \in PlanIds, sd \in StartDates,
       f \in PaymentFrequency, n \in PolicyNumbers :
        /\ Room(create_policy_response(c, pl, sd, f, n), RowCount < MaxRows)
        /\ create_policy(c, pl, sd, f, n)

ActivatePolicy == \E c \in Callers, p \in PolicyIds : activate_policy(c, p)

CreateClaim ==
    \E c \in Callers, p \in PolicyIds, a \in Amounts, n \in ClaimNumbers :
        /\ Room(create_claim_response(c, p, a, n), RowCount < MaxRows)
        /\ create_claim(c, p, a, n)

ReviewInputs ==
    [status : ClaimStatus \cup {None},
     approved_amount : {Unset} \cup {Some(v) : v \in ApprovedAmounts},
     now : Times]

UpdateClaim ==
    \E c \in Callers, cl \in ClaimIds, r \in ReviewInputs :
        update_claim(c, cl, r.status, r.approved_amount, r.now)

CreatePayment ==
    \E c \in Callers, p \in PolicyIds, a \in Amounts, r \in PaymentReferences :
        /\ Room(create_payment_response(c, p, a, r), RowCount < MaxRows)
        /\ create_payment(c, p, a, r)

DeactivateUser == \E c \in Callers, u \in UserIds : deactivate_user(c, u)

\* the endpoints that take no caller
ReadPublic ==
    \/ root
    \/ health_check
    \/ get_plans
    \/ \E pl \in PlanIds : get_plan(pl)

\* the read endpoints behind authentication
ReadProtected ==
    \E c \in Callers :
        \/ read_users_me(c)
        \/ get_policies(c)
        \/ \E p \in PolicyIds : get_policy(c, p)
        \/ get_claims(c)
        \/ \E cl \in ClaimIds : get_claim(c, cl)
        \/ get_payments(c)
        \/ get_dashboard_stats(c)
        \/ get_all_users(c)
        \/ get_claims_summary(c)
        \/ get_revenue_summary(c)

Next ==
    \/ Register
    \/ Login
    \/ CreatePlan
    \/ CreatePolicy
    \/ ActivatePolicy
    \/ CreateClaim
    \/ UpdateClaim
    \/ CreatePayment
    \/ DeactivateUser
    \/ ReadPublic
    \/ ReadProtected

Spec == Init /\ [][Next]_vars

----------------------------------------------------------------------------
(* Vocabulary of the claims *)

\* error kinds the specification names and no handler raises
InvalidTransition == "InvalidTransition"
InvalidAmount == "InvalidAmount"

IsUser(c) == c \in 1..Len(users)

IsActiveUser(c) == IsUser(c) /\ users[c].is_active

HasRole(c, roles) == IsUser(c) /\ users[c].role \in roles

IsPolicy(p) == p \in 1..Len(policies)

IsClaim(cl) == cl \in 1..Len(claims)

OwnsPolicy(c, p) == policies[p].user_id = c

----------------------------------------------------------------------------
(* C1 *)

\* C1: activatePolicy applied to a policy whose status is not pending
\* (active, expired or cancelled) fails with InvalidTransition: for every
\* admin the role check lets through and every existing policy that is not
\* pending, the response of activate_policy is InvalidTransition.
C1_ActivateNonPendingFails ==
    \A c \in Callers, p \in PolicyIds :
        (check_admin(c) = OK /\ IsPolicy(p) /\ policies[p].status # "pending")
            => activate_policy_response(c, p) = InvalidTransition

----------------------------------------------------------------------------
(* C2 *)

\* C2: in every reachable state each claim has
\* approved_amount <= claim_amount.
C2_ApprovedWithinClaimed ==
    \A cl \in 1..Len(claims) :
        claims[cl].approved_amount <= claims[cl].claim_amount

----------------------------------------------------------------------------
(* C3 *)

TerminalClaimStatus == {"paid", "rejected"}

\* C3: a review (update_claim) of a claim whose status is paid or rejected,
\* requesting another status, leaves the claim's status, approved amount,
\* reviewer and review date unchanged (it fails with InvalidTransition).
C3_TerminalClaimReviewFails ==
    [][\A c \in Callers, cl \in ClaimIds, r \in ReviewInputs :
          ( /\ IsClaim(cl)
            /\ claims[cl].status \in TerminalClaimStatus
            /\ r.status \notin {None, claims[cl].status}
            /\ update_claim(c, cl, r.status, r.approved_amount, r.now) )
              => /\ claims'[cl].status = claims[cl].status
                 /\ claims'[cl].approved_amount = claims[cl].approved_amount
                 /\ claims'[cl].reviewed_by = claims[cl].reviewed_by
                 /\ claims'[cl].review_date = claims[cl].review_date]_vars

----------------------------------------------------------------------------
(* C4 *)

ClaimEdges ==
    { <<"submitted", "under_review">>, <<"under_review", "approved">>,
      <<"under_review", "rejected">>, <<"approved", "paid">> }

\* C4: every change of a claim's status follows one of the edges
\* submitted->under_review, under_review->approved, under_review->rejected,
\* approved->paid.
C4_ClaimStatusEdges ==
    [][\A cl \in 1..Len(claims) :
          claims'[cl].status # claims[cl].status
              => <<claims[cl].status, claims'[cl].status>> \in ClaimEdges]_vars

----------------------------------------------------------------------------
(* C5 *)

\* The statement of C5 as written: create_claim against a policy that is not
\* active answers PolicyNotActive whatever the caller's role (for an active
\* caller and a valid amount).
C5_AlwaysPolicyNotActive ==
    \A c \in Callers, p \in PolicyIds, a \in Amounts, n \in ClaimNumbers :
        ( /\ IsActiveUser(c) /\ a > 0
          /\ IsPolicy(p) /\ policies[p].status # "active" )
            => create_claim_response(c, p, a, n) = PolicyNotActive

\* C5 (amended): create_claim against a policy that is not active fails for
\* every caller and creates no claim, so every claim row references an
\* active policy; for an active caller and a valid amount the error is
\* PolicyNotActive when the caller owns the policy or is an admin, and
\* Forbidden when the caller is neither (ownership is checked first).
C5_NonActivePolicyRejectsClaim ==
    /\ \A c \in Callers, p \in PolicyIds, a \in Amounts, n \in ClaimNumbers :
          (IsPolicy(p) /\ policies[p].status # "active")
              => /\ create_claim_response(c, p, a, n) # OK
                 /\ (IsActiveUser(c) /\ a > 0)
                      => create_claim_response(c, p, a, n) =
                            IF OwnsPolicy(c, p) \/ HasRole(c, {"admin"})
                            THEN PolicyNotActive
                            ELSE Forbidden
    /\ \A cl \in 1..Len(claims) :
          /\ IsPolicy(claims[cl].policy_id)
          /\ policies[claims[cl].policy_id].status = "active"

\* a pending policy that its owner and a non-owner both try to claim against
C5_Witness ==
    \E p \in PolicyIds, c1 \in Callers, c2 \in Callers :
        /\ IsPolicy(p) /\ policies[p].status = "pending"
        /\ create_claim_response(c1, p, 1, 1) = PolicyNotActive
        /\ create_claim_response(c2, p, 1, 1) = Forbidden

----------------------------------------------------------------------------
(* C6 *)

PolicyEdges ==
    { <<"pending", "active">>, <<"active", "expired">>,
      <<"active", "cancelled">> }

\* C6: every change of a policy's status follows one of the edges
\* pending->active, active->expired, active->cancelled; so an expired or
\* cancelled policy never changes status and no policy goes from active
\* back to pending.
C6_PolicyStatusEdges ==
    [][\A p \in 1..Len(policies) :
          policies'[p].status # policies[p].status
              => <<policies[p].status, policies'[p].status>> \in PolicyEdges]_vars

\* a policy that has been activated, beside one that has not
C6_Witness ==
    \E p \in PolicyIds, q \in PolicyIds :
        /\ IsPolicy(p) /\ policies[p].status = "active"
        /\ IsPolicy(q) /\ policies[q].status = "pending"

----------------------------------------------------------------------------
(* C7 *)

\* The statement of C7 as written: activate_policy by a caller whose role is
\* not admin answers Forbidden.
C7_NonAdminForbidden ==
    \A c \in Callers, p \in PolicyIds :
        (IsUser(c) /\ users[c].role # "admin")
            => activate_policy_response(c, p) = Forbidden

\* what activate_policy answers a caller whose role is not admin
C7_NonAdminRefused ==
    \A c \in Callers, p \in PolicyIds :
        (IsUser(c) /\ users[c].role # "admin")
            => activate_policy_response(c, p) =
                  IF users[c].is_active THEN Forbidden ELSE InactiveUser

\* C7 (amended): every policy is created with status pending, and the only
\* step that changes a policy's status to active is activate_policy by an
\* active caller whose role is admin; activate_policy by a caller whose role
\* is not admin fails, with Forbidden when the caller is active and with the
\* 400 "Inactive user" error when the caller is deactivated, and leaves the
\* policies unchanged.
C7_AdminOnlyActivation ==
    /\ []C7_NonAdminRefused
    /\ [][ /\ \A p \in (Len(policies) + 1)..Len(policies') :
                 policies'[p].status = "pending"
           /\ \A p \in 1..Len(policies) :
                 (policies[p].status # "active" /\ policies'[p].status = "active")
                     => \E c \in Callers :
                           /\ IsActiveUser(c) /\ HasRole(c, {"admin"})
                           /\ activate_policy(c, p)
           /\ vars' # vars
                 => \A c \in Callers :
                       (IsUser(c) /\ users[c].role # "admin")
                           => \A p \in PolicyIds : ~activate_policy(c, p) ]_vars

\* an activated policy, and a pending one that a non-admin may not activate
C7_Witness ==
    \E p \in PolicyIds, q \in PolicyIds, c \in Callers :
        /\ IsPolicy(p) /\ policies[p].status = "active"
        /\ IsPolicy(q) /\ policies[q].status = "pending"
        /\ IsUser(c) /\ users[c].role # "admin"
        /\ activate_policy_response(c, q) = Forbidden

----------------------------------------------------------------------------
(* C8 *)

\* what activate_policy answers an active admin naming a pending policy, and
\* that the request then takes effect
C8_PendingActivationAccepted ==
    \A c \in Callers, p \in PolicyIds :
        ( /\ IsActiveUser(c) /\ HasRole(c, {"admin"})
          /\ IsPolicy(p) /\ policies[p].status = "pending" )
            => /\ activate_policy_response(c, p) = OK
               /\ ENABLED <<activate_policy(c, p)>>_vars

----------------------------------------------------------------------------
(* C9 *)

\* The statement of C9 as written: create_claim and create_payment answer
\* Forbidden whenever the caller is not the policy's owner and has not the
\* admin role (for an existing policy and a valid amount).
C9_NonOwnerForbidden ==
    \A c \in Callers, p \in PolicyIds :
        ( /\ IsUser(c) /\ IsPolicy(p)
          /\ ~OwnsPolicy(c, p) /\ users[c].role # "admin" )
            => /\ \A n \in ClaimNumbers :
                      create_claim_response(c, p, 1, n) = Forbidden
               /\ \A r \in PaymentReferences :
                      create_payment_response(c, p, 1, r) = Forbidden

\* a row created by its policy's owner or by an admin
ByOwnerOrAdmin(row) ==
    /\ IsPolicy(row.policy_id) /\ IsUser(row.user_id)
    /\ \/ policies[row.policy_id].user_id = row.user_id
       \/ users[row.user_id].role = "admin"

\* C9 (amended): for an existing policy and a valid amount, create_claim and
\* create_payment by a caller who is neither the policy's owner nor an admin
\* fail, with Forbidden when the caller is active and with the 400 "Inactive
\* user" error when the caller is deactivated, and create no row, so every
\* claim and payment row was created by its policy's owner or by an admin;
\* for the owner or an admin neither request answers Forbidden.
C9_OwnershipCheck ==
    /\ \A c \in Callers, p \in PolicyIds, a \in Amounts \ {0} :
          (IsUser(c) /\ IsPolicy(p))
              => \A n \in ClaimNumbers, r \in PaymentReferences :
                    IF ~OwnsPolicy(c, p) /\ users[c].role # "admin"
                    THEN LET refusal == IF users[c].is_active
                                        THEN Forbidden ELSE InactiveUser
                         IN  /\ create_claim_response(c, p, a, n) = refusal
                             /\ create_payment_response(c, p, a, r) = refusal
                    ELSE /\ create_claim_response(c, p, a, n) # Forbidden
                         /\ create_payment_response(c, p, a, r) # Forbidden
    /\ \A cl \in 1..Len(claims) : ByOwnerOrAdmin(claims[cl])
    /\ \A pm \in 1..Len(payments) : ByOwnerOrAdmin(payments[pm])

\* a policy with a payment, which a non-owner who is no admin may neither
\* claim against nor pay for
C9_Witness ==
    \E p \in PolicyIds, c \in Callers :
        /\ IsPolicy(p) /\ IsUser(c)
        /\ \E pm \in 1..Len(payments) : payments[pm].policy_id = p
        /\ create_claim_response(c, p, 1, 1) = Forbidden
        /\ create_payment_response(c, p, 1, 1) = Forbidden

----------------------------------------------------------------------------
(* C10 *)

\* The statement of C10 as written: update_claim of an existing claim by a
\* customer or a provider answers Forbidden.
C10_CustomerProviderForbidden ==
    \A c \in Callers, cl \in ClaimIds, r \in ReviewInputs :
        (HasRole(c, {"customer", "provider"}) /\ IsClaim(cl))
            => update_claim_response(c, cl, r.status, r.approved_amount,
                                     r.now) = Forbidden

\* what update_claim answers a customer or a provider
C10_CustomerProviderRefused ==
    \A c \in Callers, cl \in ClaimIds, r \in ReviewInputs :
        (HasRole(c, {"customer", "provider"}) /\ IsClaim(cl))
            => update_claim_response(c, cl, r.status, r.approved_amount,
                                     r.now) =
                  IF users[c].is_active THEN Forbidden ELSE InactiveUser

ReviewFields(claim) ==
    <<claim.status, claim.approved_amount, claim.reviewed_by, claim.review_date>>

\* C10 (amended): a claim's status, approved amount, reviewer and review
\* date change only in an update_claim step whose caller is an active user
\* of role admin or agent, and no other operation changes them;
\* update_claim of an existing claim by a customer or a provider fails, with
\* Forbidden when the caller is active and with the 400 "Inactive user"
\* error when the caller is deactivated, and changes nothing.
C10_ReviewerOnlyChanges ==
    /\ []C10_CustomerProviderRefused
    /\ [][ /\ \A cl \in 1..Len(claims) :
                 ReviewFields(claims'[cl]) # ReviewFields(claims[cl])
                     => \E c \in Callers :
                           /\ IsActiveUser(c) /\ HasRole(c, {"admin", "agent"})
                           /\ \E r \in ReviewInputs :
                                 update_claim(c, cl, r.status,
                                              r.approved_amount, r.now)
           /\ vars' # vars
                 => \A c \in Callers :
                       HasRole(c, {"customer", "provider"})
                           => \A cl \in ClaimIds, r \in ReviewInputs :
                                 ~update_claim(c, cl, r.status,
                                               r.approved_amount, r.now) ]_vars

\* a reviewed claim, which a customer or provider may not review
C10_Witness ==
    \E cl \in ClaimIds, c \in Callers :
        /\ IsClaim(cl) /\ claims[cl].reviewed_by # Null
        /\ HasRole(c, {"customer", "provider"})
        /\ update_claim_response(c, cl, "approved", Unset, 1) = Forbidden

----------------------------------------------------------------------------
(* C11 *)

\* C11: every successful update_claim records the reviewer: after it the
\* claim's reviewed_by is the caller's id and review_date is set, also when
\* the request carries only an approved amount and no status.
C11_ReviewRecordsReviewer ==
    [][\A c \in Callers, cl \in ClaimIds, r \in ReviewInputs :
          ( /\ update_claim_response(c, cl, r.status, r.approved_amount,
                                     r.now) = OK
            /\ update_claim(c, cl, r.status, r.approved_amount, r.now) )
              => /\ claims'[cl].reviewed_by = c
                 /\ claims'[cl].review_date # Null]_vars

----------------------------------------------------------------------------
(* C12 *)

\* no step that changes a table is the step of a request answering an error
C12_FailedRequestWritesNothing ==
    vars' # vars =>
      /\ \A u \in Names, e \in Names, r \in UserRole :
            register_response(u, e, r) # OK => ~register(u, e, r)
      /\ \A c \in Callers :
            /\ \A m \in MonthlyPremiums, a \in AnnualPremiums :
                  create_plan_response(c, m, a) # OK => ~create_plan(c, m, a)
            /\ \A pl \in PlanIds, sd \in StartDates, f \in PaymentFrequency,
                  n \in PolicyNumbers :
                  create_policy_response(c, pl, sd, f, n) # OK
                      => ~create_policy(c, pl, sd, f, n)
            /\ \A p \in PolicyIds :
                  activate_policy_response(c, p) # OK => ~activate_policy(c, p)
            /\ \A p \in PolicyIds, a \in Amounts :
                  /\ \A n \in ClaimNumbers :
                        create_claim_response(c, p, a, n) # OK
                            => ~create_claim(c, p, a, n)
                  /\ \A r \in PaymentReferences :
                        create_payment_response(c, p, a, r) # OK
                            => ~create_payment(c, p, a, r)
            /\ \A cl \in ClaimIds, r \in ReviewInputs :
                  update_claim_response(c, cl, r.status, r.approved_amount,
                                        r.now) # OK
                      => ~update_claim(c, cl, r.status, r.approved_amount,
                                       r.now)
            /\ \A u \in UserIds :
                  deactivate_user_response(c, u) # OK => ~deactivate_user(c, u)

\* C12: every request that answers an error (401, 400, 403, 404, 422 or
\* 500) leaves every user, plan, policy, claim and payment row exactly as it
\* was: no handler applies part of an update before failing.
C12_ErrorsChangeNothing == [][C12_FailedRequestWritesNothing]_vars

\* rows in the users, plans, policies and claims tables, with a two-field
\* review that is refused (403) and requests answering 400, 401 and 404
C12_Witness ==
    /\ Len(policies) = 1 /\ Len(claims) = 1 /\ claims[1].reviewed_by # Null
    /\ \E c \in Callers :
          update_claim_response(c, 1, "approved", Some(1), 1) = Forbidden
    /\ register_response(1, 1, "customer") = Conflict
    /\ activate_policy_response(Anonymous, 1) = Unauthorized
    /\ activate_policy_response(1, 2) = NotFound

----------------------------------------------------------------------------
(* C13 *)

IsPlan(pl) == pl \in 1..Len(plans)

\* the premium create_policy selects for a policy of that plan and frequency
IssuancePremium(policy) ==
    IF policy.payment_frequency = "monthly"
    THEN plans[policy.plan_id].monthly_premium
    ELSE plans[policy.plan_id].annual_premium

\* C13: in every reachable state each policy's premium_amount is the value
\* selected at issuance (its plan's monthly premium when payment_frequency
\* is "monthly", otherwise the plan's annual premium), and no step changes
\* the premium_amount of an existing policy.
C13_PremiumFixedAtIssuance ==
    /\ [](\A p \in 1..Len(policies) :
             /\ IsPlan(policies[p].plan_id)
             /\ policies[p].premium_amount = IssuancePremium(policies[p]))
    /\ [][\A p \in 1..Len(policies) :
             /\ p <= Len(policies')
             /\ policies'[p].premium_amount = policies[p].premium_amount]_vars

\* an annual policy that was activated, claimed against and reviewed, and
\* whose premium is still the plan's annual premium, not the monthly one
C13_Witness ==
    \E p \in PolicyIds, cl \in ClaimIds :
        /\ IsPolicy(p) /\ policies[p].status = "active"
        /\ policies[p].payment_frequency = "annual"
        /\ policies[p].premium_amount # plans[policies[p].plan_id].monthly_premium
        /\ IsClaim(cl) /\ claims[cl].policy_id = p
        /\ claims[cl].reviewed_by # Null

----------------------------------------------------------------------------
(* C14 *)

IsLeapYear(y) == (y % 4 = 0 /\ y % 100 # 0) \/ y % 400 = 0

DaysInYear(y) == IF IsLeapYear(y) THEN 366 ELSE 365

DaysInMonth(y, m) ==
    IF m = 2 THEN (IF IsLeapYear(y) THEN 29 ELSE 28)
    ELSE IF m \in {4, 6, 9, 11} THEN 30
    ELSE 31

RECURSIVE MonthAndDay(_, _, _)
MonthAndDay(y, m, d) ==
    IF d <= DaysInMonth(y, m) THEN <<y, m, d>>
    ELSE MonthAndDay(y, m + 1, d - DaysInMonth(y, m))

RECURSIVE YearAndDay(_, _)
YearAndDay(y, d) ==
    IF d <= DaysInYear(y) THEN MonthAndDay(y, 1, d)
    ELSE YearAndDay(y + 1, d - DaysInYear(y))

\* the calendar date <<year, month, day>> of a day number (day 1 is
\* 2024-01-01)
CalendarDate(n) == YearAndDay(2024, n)

\* C14: for every policy end_date is start_date plus exactly 365 days (so a
\* start of 2024-01-01 gives an end of 2024-12-31), and no step changes the
\* start_date or end_date of an existing policy.
C14_EndDateOneYearAfterStart ==
    /\ [](\A p \in 1..Len(policies) :
             /\ policies[p].end_date = policies[p].start_date + 365
             /\ CalendarDate(policies[p].start_date) = <<2024, 1, 1>>
                   => CalendarDate(policies[p].end_date) = <<2024, 12, 31>>)
    /\ [][\A p \in 1..Len(policies) :
             /\ p <= Len(policies')
             /\ policies'[p].start_date = policies[p].start_date
             /\ policies'[p].end_date = policies[p].end_date]_vars

\* an activated policy starting 2024-01-01 and ending 2024-12-31, beside one
\* starting 2024-01-02 and ending 2025-01-01
C14_Witness ==
    \E p \in PolicyIds, q \in PolicyIds :
        /\ IsPolicy(p) /\ policies[p].status = "active"
        /\ CalendarDate(policies[p].start_date) = <<2024, 1, 1>>
        /\ CalendarDate(policies[p].end_date) = <<2024, 12, 31>>
        /\ IsPolicy(q)
        /\ CalendarDate(policies[q].start_date) = <<2024, 1, 2>>
        /\ CalendarDate(policies[q].end_date) = <<2025, 1, 1>>

----------------------------------------------------------------------------
(* C15 *)

\* The insurance_plans table the application may find at startup. The
\* database outlives the process and startup keeps the rows it finds;
\* is_active is a column of the table that get_plans filters on and that no
\* handler writes, so an inactive plan is a row written outside the API.
StoredPlans ==
    {<< >>} \cup
    { << [monthly_premium |-> m, annual_premium |-> a,
         copay_percentage |-> DefaultCopayPercentage, is_active |-> b] >> :
          m \in MonthlyPremiums \ {0}, a \in AnnualPremiums \ {0}, b \in BOOLEAN }

InitStoredPlans ==
    /\ users = << [username |-> 1, email |-> 1, role |-> "admin", is_active |-> TRUE] >>
    /\ plans \in StoredPlans
    /\ policies = << >>
    /\ claims = << >>
    /\ payments = << >>
    /\ inflight = << >>

\* the handlers, started on a database that already holds plans
SpecStoredPlans == InitStoredPlans /\ [][Next]_vars

----------------------------------------------------------------------------
(* Requests running side by side *)
(* Handlers are plain functions, which the server runs on worker threads,  *)
(* each request with a database session of its own. A request is split at  *)
(* its commit: first its dependencies and queries, then db.commit().       *)

\* the UPDATE a session flushes at commit: of the columns update_claim
\* assigns, those whose value differs from the value the session loaded
UpdateStatement(current, loaded, assigned) ==
    [current EXCEPT
        !.status = IF assigned.status # loaded.status
                   THEN assigned.status ELSE @,
        !.reviewed_by = IF assigned.reviewed_by # loaded.reviewed_by
                        THEN assigned.reviewed_by ELSE @,
        !.review_date = IF assigned.review_date # loaded.review_date
                        THEN assigned.review_date ELSE @,
        !.approved_amount = IF assigned.approved_amount # loaded.approved_amount
                            THEN assigned.approved_amount ELSE @]

\* update_claim up to its commit: the dependencies, the query of the claim,
\* the role test and the reading of the clock; the session keeps the row
\* it loaded
update_claim_read(caller, claim_id, status, approved_amount, now) ==
    IF update_claim_response(caller, claim_id, status, approved_amount, now) # OK
    THEN Rejected
    ELSE /\ inflight' = Append(inflight,
                [op |-> "update_claim",
                 caller |-> caller,
                 claim_id |-> claim_id,
                 status |-> status,
                 approved_amount |-> approved_amount,
                 now |-> now,
                 loaded |-> claims[claim_id],
                 done |-> FALSE])
         /\ UNCHANGED <<users, plans, policies, claims, payments>>

\* the row of a session after the assignments of its request
AssignedRow(request, row) ==
    ApplyClaimUpdate(row, request.caller, request.status,
                     request.approved_amount, request.now)

\* the commit of update_claim
update_claim_commit(i) ==
    /\ i \in 1..Len(inflight)
    /\ inflight[i].op = "update_claim"
    /\ ~inflight[i].done
    /\ claims' = ReplaceRow(claims, inflight[i].claim_id,
            UpdateStatement(claims[inflight[i].claim_id], inflight[i].loaded,
                            AssignedRow(inflight[i], inflight[i].loaded)))
    /\ inflight' = [inflight EXCEPT ![i].done = TRUE]
    /\ UNCHANGED <<users, plans, policies, payments>>

\* register up to its commit: the query for a user of that e-mail or
\* username, and the new row added to the session
register_check(username, email, role) ==
    IF register_response(username, email, role) # OK
    THEN Rejected
    ELSE /\ inflight' = Append(inflight,
                [op |-> "register",
                 username |-> username,
                 email |-> email,
                 role |-> role,
                 done |-> FALSE])
         /\ UNCHANGED <<users, plans, policies, claims, payments>>

\* the unique indexes of users.email and users.username refuse the row
UniqueViolation(username, email) ==
    \E u \in 1..Len(users) :
        users[u].email = email \/ users[u].username = username

\* the commit of register on a table without unique indexes (a faulty
\* variant, which C17 must reject)
register_commit_NoUniqueIndex(i) ==
    /\ i \in 1..Len(inflight)
    /\ inflight[i].op = "register"
    /\ ~inflight[i].done
    /\ users' = Append(users, [username |-> inflight[i].username,
                               email |-> inflight[i].email,
                               role |-> inflight[i].role,
                               is_active |-> TRUE])
    /\ inflight' = [inflight EXCEPT ![i].done = TRUE]
    /\ UNCHANGED <<plans, policies, claims, payments>>

\* the commit of register: the INSERT, which the unique indexes refuse
\* (IntegrityError, 500) when another request has inserted the e-mail or
\* username since the check
register_commit(i) ==
    /\ i \in 1..Len(inflight)
    /\ inflight[i].op = "register"
    /\ ~inflight[i].done
    /\ users' = IF UniqueViolation(inflight[i].username, inflight[i].email)
                THEN users
                ELSE Append(users, [username |-> inflight[i].username,
                                    email |-> inflight[i].email,
                                    role |-> inflight[i].role,
                                    is_active |-> TRUE])
    /\ inflight' = [inflight EXCEPT ![i].done = TRUE]
    /\ UNCHANGED <<plans, policies, claims, payments>>

\* The tables when the concurrent requests arrive: the default admin, with
\* or without a registered agent, a plan, an activated policy of the admin
\* and a claim submitted against it.
InitConcurrent ==
    /\ users \in
          { << [username |-> 1, email |-> 1, role |-> "admin", is_active |-> TRUE] >>,
            << [username |-> 1, email |-> 1, role |-> "admin", is_active |-> TRUE],
               [username |-> 2, email |-> 2, role |-> "agent", is_active |-> TRUE] >> }
    /\ plans = << [monthly_premium |-> 1, annual_premium |-> 12,
                   copay_percentage |-> DefaultCopayPercentage,
                   is_active |-> TRUE] >>
    /\ policies = << [policy_number |-> 1, user_id |-> 1, plan_id |-> 1,
                      start_date |-> 1, end_date |-> 366, premium_amount |-> 1,
                      payment_frequency |-> "monthly", status |-> "active"] >>
    /\ claims = << [claim_number |-> 1, user_id |-> 1, policy_id |-> 1,
                    claim_amount |-> 1, approved_amount |-> 0,
                    status |-> "submitted", reviewed_by |-> Null,
                    review_date |-> Null] >>
    /\ payments = << >>
    /\ inflight = << >>

ReadClaimForUpdate ==
    \E c \in Callers, cl \in ClaimIds, r \in ReviewInputs :
        /\ Room(update_claim_response(c, cl, r.status, r.approved_amount, r.now),
                Len(inflight) < MaxInFlight)
        /\ update_claim_read(c, cl, r.status, r.approved_amount, r.now)

CommitClaimUpdate == \E i \in 1..MaxInFlight : update_claim_commit(i)

\* usernames and e-mail addresses of concurrent registrations: those of the
\* users there can be, and one more
NewNames == 1..(MaxUsers + 1)

CheckRegister ==
    \E u \in NewNames, e \in NewNames, r \in UserRole :
        /\ Room(register_response(u, e, r), Len(inflight) < MaxInFlight)
        /\ register_check(u, e, r)

CommitRegister == \E i \in 1..MaxInFlight : register_commit(i)

NextConcurrent ==
    \/ ReadClaimForUpdate
    \/ CommitClaimUpdate
    \/ CheckRegister
    \/ CommitRegister

SpecConcurrent == InitConcurrent /\ [][NextConcurrent]_vars

----------------------------------------------------------------------------
(* C16 *)

\* the fields of a claim that C16 compares
ReviewOutcome(claim) ==
    <<claim.status, claim.approved_amount, claim.reviewed_by>>

\* two update_claim requests on one claim, both committed, that loaded the
\* same row, with no third request on that claim
ConcurrentReviews(i, j) ==
    /\ i < j
    /\ inflight[i].op = "update_claim" /\ inflight[j].op = "update_claim"
    /\ inflight[i].claim_id = inflight[j].claim_id
    /\ inflight[i].done /\ inflight[j].done
    /\ inflight[i].loaded = inflight[j].loaded
    /\ \A k \in 1..Len(inflight) :
          (inflight[k].op = "update_claim" /\ k \notin {i, j})
              => inflight[k].claim_id # inflight[i].claim_id

\* C16: when two update_claim requests on one claim run side by side (each
\* loads the claim, assigns its fields and commits), the claim's status,
\* approved_amount and reviewed_by afterwards are those of running the two
\* requests one after the other in one of the two orders; so reviewed_by
\* names the caller whose request set the final status.
C16_ConcurrentReviewsSerializable ==
    \A i \in 1..Len(inflight), j \in 1..Len(inflight) :
        ConcurrentReviews(i, j)
            => LET before == inflight[i].loaded
                   a == inflight[i]
                   b == inflight[j]
               IN  ReviewOutcome(claims[a.claim_id]) \in
                      { ReviewOutcome(AssignedRow(b, AssignedRow(a, before))),
                        ReviewOutcome(AssignedRow(a, AssignedRow(b, before))) }

----------------------------------------------------------------------------
(* C17 *)

\* no two rows of the users table share an e-mail address or a username
UniqueUsers ==
    \A i \in 1..Len(users), j \in 1..Len(users) :
        i # j => /\ users[i].email # users[j].email
                 /\ users[i].username # users[j].username

\* register naming an e-mail address or username that a user holds answers
\* 400 "Email or username already registered"
C17_HeldNameConflicts ==
    \A u \in NewNames, e \in NewNames, r \in UserRole :
        (\E i \in 1..Len(users) : users[i].email = e \/ users[i].username = u)
            => register_response(u, e, r) = Conflict

\* C17: in every reachable state no two users share an e-mail address or a
\* username: register naming an e-mail address or username held by an
\* existing user answers Conflict and neither creates a user nor keeps a
\* request in flight, and of two registrations of one e-mail address or
\* username that both pass the check before either commits, at most one
\* creates a user.
C17_UniqueEmailAndUsername ==
    /\ [](UniqueUsers /\ C17_HeldNameConflicts)
    /\ [](\A i \in 1..Len(inflight) :
             (inflight[i].op = "register" /\ inflight[i].done)
                 => Cardinality({u \in 1..Len(users) :
                                    users[u].email = inflight[i].email}) <= 1
                    /\ Cardinality({u \in 1..Len(users) :
                                    users[u].username = inflight[i].username}) <= 1)
    /\ [][vars' # vars
            => \A u \in NewNames, e \in NewNames, r \in UserRole :
                  register_response(u, e, r) = Conflict
                      => ~register_check(u, e, r)]_vars

\* two registrations of one username and different e-mail addresses that
\* both passed the check and both committed, leaving one user of that name
C17_Witness ==
    \E i \in 1..Len(inflight), j \in 1..Len(inflight) :
        /\ i < j
        /\ inflight[i].op = "register" /\ inflight[j].op = "register"
        /\ inflight[i].done /\ inflight[j].done
        /\ inflight[i].username = inflight[j].username
        /\ inflight[i].email # inflight[j].email
        /\ Cardinality({u \in 1..Len(users) :
                           users[u].username = inflight[i].username}) = 1

----------------------------------------------------------------------------
(* C18 *)

\* what every endpoint behind authentication answers the caller c, for
\* every input: 401
AllUnauthorized(c) ==
    /\ read_users_me_response(c) = Unauthorized
    /\ get_policies_response(c) = Unauthorized
    /\ get_claims_response(c) = Unauthorized
    /\ get_payments_response(c) = Unauthorized
    /\ get_dashboard_stats_response(c) = Unauthorized
    /\ get_claims_summary_response(c) = Unauthorized
    /\ get_revenue_summary_response(c) = Unauthorized
    /\ get_all_users_response(c) = Unauthorized
    /\ \A u \in UserIds : deactivate_user_response(c, u) = Unauthorized
    /\ \A m \in MonthlyPremiums, a \in AnnualPremiums :
          create_plan_response(c, m, a) = Unauthorized
    /\ \A pl \in PlanIds, sd \in StartDates, f \in PaymentFrequency,
          n \in PolicyNumbers :
          create_policy_response(c, pl, sd, f, n) = Unauthorized
    /\ \A p \in PolicyIds :
          /\ get_policy_response(c, p) = Unauthorized
          /\ activate_policy_response(c, p) = Unauthorized
          /\ \A a \in Amounts :
                /\ \A n \in ClaimNumbers :
                      create_claim_response(c, p, a, n) = Unauthorized
                /\ \A r \in PaymentReferences :
                      create_payment_response(c, p, a, r) = Unauthorized
    /\ \A cl \in ClaimIds :
          /\ get_claim_response(c, cl) = Unauthorized
          /\ \A r \in ReviewInputs :
                update_claim_response(c, cl, r.status, r.approved_amount,
                                      r.now) = Unauthorized

\* the endpoints that take no caller answer without one
PublicEndpointsAnswer ==
    /\ root_response = OK
    /\ health_check_response = OK
    /\ get_plans_response = OK
    /\ \A pl \in PlanIds : IsPlan(pl) => get_plan_response(pl) = OK
    /\ \A u \in Names :
          (\E i \in 1..Len(users) : users[i].username = u)
              => login_response(u, TRUE) = OK
    /\ \A u \in Names, e \in Names, r \in UserRole :
          (\A i \in 1..Len(users) : users[i].username # u /\ users[i].email # e)
              => register_response(u, e, r) = OK

\* no step that changes a table is the step of a request whose caller is no
\* user
NoWriteByStranger ==
    vars' # vars =>
        \A c \in Callers :
            ~IsUser(c) =>
              /\ \A u \in UserIds : ~deactivate_user(c, u)
              /\ \A m \in MonthlyPremiums, a \in AnnualPremiums :
                    ~create_plan(c, m, a)
              /\ \A pl \in PlanIds, sd \in StartDates, f \in PaymentFrequency,
                    n \in PolicyNumbers : ~create_policy(c, pl, sd, f, n)
              /\ \A p \in PolicyIds :
                    /\ ~activate_policy(c, p)
                    /\ \A a \in Amounts :
                          /\ \A n \in ClaimNumbers : ~create_claim(c, p, a, n)
                          /\ \A r \in PaymentReferences :
                                ~create_payment(c, p, a, r)
              /\ \A cl \in ClaimIds, r \in ReviewInputs :
                    ~update_claim(c, cl, r.status, r.approved_amount, r.now)

----------------------------------------------------------------------------
(* C19 *)

----------------------------------------------------------------------------
(* Numbered rows *)
(* The handlers that create or write numbered rows, started where the      *)
(* default admin holds an activated policy, with room for several rows of  *)
(* each kind and as many outcomes of the number generators.                *)

InitIssued ==
    /\ users = << [username |-> 1, email |-> 1, role |-> "admin", is_active |-> TRUE] >>
    /\ plans = << [monthly_premium |-> 1, annual_premium |-> 12,
                   copay_percentage |-> DefaultCopayPercentage,
                   is_active |-> TRUE] >>
    /\ policies = << [policy_number |-> 1, user_id |-> 1, plan_id |-> 1,
                      start_date |-> 1, end_date |-> 366, premium_amount |-> 1,
                      payment_frequency |-> "monthly", status |-> "active"] >>
    /\ claims = << >>
    /\ payments = << >>
    /\ inflight = << >>

\* outcomes of the number generators, and ids of the numbered rows
Numbers == 1..MaxNumbered

NumberedCreatePolicy ==
    \E c \in Callers, n \in Numbers :
        /\ Room(create_policy_response(c, 1, 1, "monthly", n),
                Len(policies) < MaxNumbered)
        /\ create_policy(c, 1, 1, "monthly", n)

NumberedActivatePolicy ==
    \E c \in Callers, p \in Numbers : activate_policy(c, p)

NumberedCreateClaim ==
    \E c \in Callers, p \in Numbers, n \in Numbers :
        /\ Room(create_claim_response(c, p, 1, n), Len(claims) < MaxNumbered)
        /\ create_claim(c, p, 1, n)

NumberedUpdateClaim ==
    \E c \in Callers, cl \in Numbers :
        update_claim(c, cl, "approved", Some(1), 1)

NumberedCreatePayment ==
    \E c \in Callers, p \in Numbers, r \in Numbers :
        /\ Room(create_payment_response(c, p, 1, r), Len(payments) < MaxNumbered)
        /\ create_payment(c, p, 1, r)

NextNumbered ==
    \/ NumberedCreatePolicy
    \/ NumberedActivatePolicy
    \/ NumberedCreateClaim
    \/ NumberedUpdateClaim
    \/ NumberedCreatePayment
    \/ DeactivateUser

SpecNumbered == InitIssued /\ [][NextNumbered]_vars

----------------------------------------------------------------------------
(* C20 *)

\* the rows of a table carry pairwise distinct values in a column
Distinct(table, column) ==
    \A i \in 1..Len(table), j \in 1..Len(table) :
        i # j => table[i][column] # table[j][column]

\* the rows a table already holds keep their value in a column
Kept(before, after, column) ==
    \A i \in 1..Len(before) :
        i <= Len(after) /\ after[i][column] = before[i][column]

\* C20: policy numbers, claim numbers and payment references are pairwise
\* distinct among the rows of their table in every reachable state, and no
\* step (activation, review, payment, deactivation, creation of another
\* row) changes the number of an existing row.
C20_NumbersDistinctAndFixed ==
    /\ [](/\ Distinct(policies, "policy_number")
          /\ Distinct(claims, "claim_number")
          /\ Distinct(payments, "payment_reference"))
    /\ [][ /\ Kept(policies, policies', "policy_number")
           /\ Kept(claims, claims', "claim_number")
           /\ Kept(payments, payments', "payment_reference") ]_vars

\* two policies, two claims and two payments, a policy activated after its
\* creation and a claim reviewed, and then the admin deactivated
C20_Witness ==
    /\ Len(policies) = 2 /\ policies[2].status = "active"
    /\ Len(claims) = 2 /\ claims[2].reviewed_by # Null
    /\ Len(payments) = 2
    /\ ~users[1].is_active

----------------------------------------------------------------------------
(* C21 *)

\* create_payment answers 200 to an active caller who owns the policy or is
\* an admin, whatever the policy's status, when the reference is unused
C21_AcceptedWhateverStatus ==
    \A c \in Callers, p \in Numbers, r \in Numbers :
        ( /\ IsActiveUser(c) /\ IsPolicy(p)
          /\ (OwnsPolicy(c, p) \/ HasRole(c, {"admin"}))
          /\ \A pm \in 1..Len(payments) : payments[pm].payment_reference # r )
            => create_payment_response(c, p, 1, r) = OK

\* C21: a successful create_payment adds exactly one payment row and leaves
\* every policy (its status included), every claim (its status and
\* approved_amount included), every user and every plan unchanged; and it
\* succeeds whether the policy it names is pending or active.
C21_PaymentTouchesNoStatus ==
    /\ []C21_AcceptedWhateverStatus
    /\ [][\A c \in Callers, p \in Numbers, r \in Numbers :
             ( /\ create_payment_response(c, p, 1, r) = OK
               /\ create_payment(c, p, 1, r) )
                 => /\ Len(payments') = Len(payments) + 1
                    /\ SubSeq(payments', 1, Len(payments)) = payments
                    /\ payments'[Len(payments')].policy_id = p
                    /\ UNCHANGED <<users, plans, policies, claims>> ]_vars

\* a payment for a pending policy and one for an active policy that has an
\* approved claim
C21_Witness ==
    \E a \in 1..Len(payments), b \in 1..Len(payments), cl \in 1..Len(claims) :
        /\ policies[payments[a].policy_id].status = "pending"
        /\ policies[payments[b].policy_id].status = "active"
        /\ claims[cl].policy_id = payments[b].policy_id
        /\ claims[cl].status = "approved"

----------------------------------------------------------------------------
(* C22 *)

\* C22: a user's role never changes after the user is created: no step
\* (register, login, create_policy, create_claim, create_payment,
\* deactivate_user, activate_policy, update_claim or any other) alters the
\* role of an existing user.
C22_RoleNeverChanges ==
    [][\A u \in 1..Len(users) :
          /\ u <= Len(users')
          /\ users'[u].role = users[u].role]_vars

\* an agent who reviewed a claim and was then deactivated, still an agent
C22_Witness ==
    \E u \in UserIds, cl \in ClaimIds :
        /\ IsUser(u) /\ users[u].role = "agent" /\ ~users[u].is_active
        /\ IsClaim(cl) /\ claims[cl].reviewed_by = u

----------------------------------------------------------------------------
(* C23 *)

\* The statement of C23 as written: create_claim and create_payment with an
\* amount <= 0 answer the invalid-amount error (the 422 of the gt=0
\* validators) to every user.
C23_NonPositiveAmountInvalid ==
    \A c \in Callers, p \in PolicyIds :
        IsUser(c)
            => /\ \A n \in ClaimNumbers :
                      create_claim_response(c, p, 0, n) = ValidationError
               /\ \A r \in PaymentReferences :
                      create_payment_response(c, p, 0, r) = ValidationError

\* what create_claim and create_payment answer an amount <= 0
C23_NonPositiveAmountRefused ==
    \A c \in Callers, p \in PolicyIds :
        LET refusal == IF ~IsUser(c) THEN Unauthorized
                       ELSE IF ~users[c].is_active THEN InactiveUser
                       ELSE ValidationError
        IN  /\ \A n \in ClaimNumbers :
                  create_claim_response(c, p, 0, n) = refusal
            /\ \A r \in PaymentReferences :
                  create_payment_response(c, p, 0, r) = refusal

\* C23 (amended): every stored claim has claim_amount > 0 and is created
\* with status submitted and approved_amount 0, and every stored payment has
\* amount > 0: create_claim or create_payment with an amount <= 0 creates no
\* row and fails, with the 422 validation error when the caller is an active
\* user, with the 400 "Inactive user" error when the caller is deactivated
\* and with 401 when the caller is no user.
C23_AmountsPositive ==
    /\ [](/\ \A cl \in 1..Len(claims) : claims[cl].claim_amount > 0
          /\ \A pm \in 1..Len(payments) : payments[pm].amount > 0
          /\ C23_NonPositiveAmountRefused)
    /\ [][ /\ \A cl \in (Len(claims) + 1)..Len(claims') :
                 /\ claims'[cl].status = "submitted"
                 /\ claims'[cl].approved_amount = 0
           /\ vars' # vars
                 => \A c \in Callers, p \in PolicyIds :
                       /\ \A n \in ClaimNumbers : ~create_claim(c, p, 0, n)
                       /\ \A r \in PaymentReferences :
                             ~create_payment(c, p, 0, r) ]_vars

\* a stored claim of positive amount, where the active admin is answered 422
\* for an amount of 0 and a deactivated user 400
C23_Witness ==
    \E cl \in ClaimIds, c \in Callers, d \in Callers :
        /\ IsClaim(cl) /\ claims[cl].claim_amount > 0
        /\ IsActiveUser(c) /\ create_claim_response(c, 1, 0, 1) = ValidationError
        /\ IsUser(d) /\ create_payment_response(d, 1, 0, 1) = InactiveUser

----------------------------------------------------------------------------
(* C24 *)

\* a claim row serialised through response_model=ClaimResponse, the body
\* update_claim answers with
ClaimResponse(id, claim) ==
    [id              |-> id,
     claim_number    |-> claim.claim_number,
     user_id         |-> claim.user_id,
     policy_id       |-> claim.policy_id,
     claim_amount    |-> claim.claim_amount,
     status          |-> claim.status,
     approved_amount |-> claim.approved_amount]

\* C24: a claim reviewed as approved carries, beside its approved_amount, a
\* patient share derived from its policy's plan: approved_amount times the
\* plan's copay_percentage over 100.
C24_ReviewDerivesPatientShare ==
    \A cl \in 1..Len(claims) :
        (claims[cl].status = "approved" /\ claims[cl].reviewed_by # Null)
            => LET copay == plans[policies[claims[cl].policy_id].plan_id]
                                .copay_percentage
                   body  == ClaimResponse(cl, claims[cl])
               IN  /\ "patient_share" \in DOMAIN body
                   /\ body.patient_share * 100 = body.approved_amount * copay

----------------------------------------------------------------------------
(* C25 *)

\* C25: every policy's status is pending or active in every reachable
\* state, and a policy that is active stays active in every step, whatever
\* operation is taken and whether or not its owner is still active.
C25_PendingOrActiveForever ==
    /\ [](\A q \in 1..Len(policies) :
              policies[q].status \in {"pending", "active"})
    /\ [][\A q \in 1..Len(policies) :
              policies[q].status = "active"
                  => /\ q <= Len(policies')
                     /\ policies'[q].status = "active"]_vars

\* an active policy whose owner has been deactivated, beside a pending one
C25_Witness ==
    \E q \in PolicyIds, r \in PolicyIds :
        /\ IsPolicy(q) /\ policies[q].status = "active"
        /\ ~users[policies[q].user_id].is_active
        /\ IsPolicy(r) /\ policies[r].status = "pending"

----------------------------------------------------------------------------
(* Concurrent claim submission: create_claim is a sync handler with a
   session of its own, so other requests run between its query of the
   policy and its commit of the claim *)

\* create_claim's answer to what it reads, without the test of the policy's
\* status (a faulty variant, which C26 must reject)
create_claim_read_response_AnyStatus(caller, policy_id, claim_amount) ==
    IF get_current_active_user(caller) # OK THEN get_current_active_user(caller)
    ELSE IF claim_amount <= 0 THEN ValidationError
    ELSE IF policy_id \notin 1..Len(policies) THEN NotFound
    ELSE IF policies[policy_id].user_id # caller /\ users[caller].role # "admin"
    THEN Forbidden
    ELSE OK

\* create_claim's answer to what it reads: the caller, the body and the
\* policy row
create_claim_read_response(caller, policy_id, claim_amount) ==
    IF get_current_active_user(caller) # OK THEN get_current_active_user(caller)
    ELSE IF claim_amount <= 0 THEN ValidationError
    ELSE IF policy_id \notin 1..Len(policies) THEN NotFound
    ELSE IF policies[policy_id].user_id # caller /\ users[caller].role # "admin"
    THEN Forbidden
    ELSE IF policies[policy_id].status # "active" THEN PolicyNotActive
    ELSE OK

\* create_claim up to its commit: the query of the policy, the three tests
\* and the new row added to the session
create_claim_read(caller, policy_id, claim_amount, number) ==
    IF create_claim_read_response(caller, policy_id, claim_amount) # OK
    THEN Rejected
    ELSE /\ inflight' = Append(inflight,
                [op |-> "create_claim",
                 caller |-> caller,
                 policy_id |-> policy_id,
                 claim_amount |-> claim_amount,
                 number |-> number,
                 done |-> FALSE])
         /\ UNCHANGED <<users, plans, policies, claims, payments>>

\* the commit of create_claim: the INSERT, which the unique index of
\* claim_number refuses (IntegrityError, 500) when the number is held
create_claim_commit(i) ==
    /\ i \in 1..Len(inflight)
    /\ inflight[i].op = "create_claim"
    /\ ~inflight[i].done
    /\ claims' = IF \E cl \in 1..Len(claims) :
                       claims[cl].claim_number = inflight[i].number
                 THEN claims
                 ELSE Append(claims,
                        [claim_number |-> inflight[i].number,
                         user_id |-> inflight[i].caller,
                         policy_id |-> inflight[i].policy_id,
                         claim_amount |-> inflight[i].claim_amount,
                         approved_amount |-> 0,
                         status |-> "submitted",
                         reviewed_by |-> Null,
                         review_date |-> Null])
    /\ inflight' = [inflight EXCEPT ![i].done = TRUE]
    /\ UNCHANGED <<users, plans, policies, payments>>

\* the admin and a customer whose policy has been created and not yet
\* activated
InitPending ==
    /\ users = << [username |-> 1, email |-> 1, role |-> "admin", is_active |-> TRUE],
                  [username |-> 2, email |-> 2, role |-> "customer", is_active |-> TRUE] >>
    /\ plans = << [monthly_premium |-> 1, annual_premium |-> 12,
                   copay_percentage |-> DefaultCopayPercentage,
                   is_active |-> TRUE] >>
    /\ policies = << [policy_number |-> 1, user_id |-> 2, plan_id |-> 1,
                      start_date |-> 1, end_date |-> 366, premium_amount |-> 1,
                      payment_frequency |-> "monthly", status |-> "pending"] >>
    /\ claims = << >>
    /\ payments = << >>
    /\ inflight = << >>

ReadPolicyForClaim ==
    \E c \in Callers, p \in Numbers, a \in Amounts, n \in Numbers :
        /\ Room(create_claim_read_response(c, p, a), Len(inflight) < MaxInFlight)
        /\ create_claim_read(c, p, a, n)

CommitClaim == \E i \in 1..MaxInFlight : create_claim_commit(i)

NextSubmitting ==
    \/ ReadPolicyForClaim
    \/ CommitClaim
    \/ NumberedCreatePolicy
    \/ NumberedActivatePolicy
    \/ NumberedUpdateClaim
    \/ DeactivateUser

SpecSubmitting == InitPending /\ [][NextSubmitting]_vars

----------------------------------------------------------------------------
(* C26 *)

\* C26: in every reachable state, every claim references an existing policy
\* whose status is active, also when other requests (activate_policy, the
\* deactivation of the caller, other submissions) run between a submission's
\* query of the policy and its commit.
C26_ClaimsOnActivePolicies ==
    \A cl \in 1..Len(claims) :
        /\ claims[cl].policy_id \in 1..Len(policies)
        /\ policies[claims[cl].policy_id].status = "active"

\* two submissions in flight at once have both committed their claims, the
\* submitter of one having been deactivated since, while another policy is
\* still pending
C26_Witness ==
    /\ Len(claims) = 2
    /\ Len(inflight) = 2 /\ inflight[1].done /\ inflight[2].done
    /\ \E cl \in 1..Len(claims) : ~users[claims[cl].user_id].is_active
    /\ \E q \in 1..Len(policies) : policies[q].status = "pending"

----------------------------------------------------------------------------
(* C27 *)

\* what the roles a registration can ask for allow: an active admin
\* activates every policy and reviews every claim, an active agent reviews
\* every claim
C27_PrivilegesOfRole ==
    \A u \in 1..Len(users) :
        users[u].is_active
            => /\ users[u].role = "admin"
                    => \A p \in 1..Len(policies) :
                           activate_policy_response(u, p) = OK
               /\ users[u].role \in {"admin", "agent"}
                    => \A cl \in 1..Len(claims), r \in ReviewInputs :
                           update_claim_response(u, cl, r.status,
                                                 r.approved_amount, r.now) = OK

----------------------------------------------------------------------------
(* C28 *)

\* the answers of the endpoints behind authentication to the caller c, over
\* all their inputs
ProtectedResponses(c) ==
    {read_users_me_response(c), get_policies_response(c),
     get_claims_response(c), get_payments_response(c),
     get_dashboard_stats_response(c), get_claims_summary_response(c),
     get_revenue_summary_response(c), get_all_users_response(c)}
    \cup {deactivate_user_response(c, u) : u \in UserIds}
    \cup {create_plan_response(c, m, a) :
              m \in MonthlyPremiums, a \in AnnualPremiums}
    \cup {create_policy_response(c, pl, sd, f, n) :
              pl \in PlanIds, sd \in StartDates, f \in PaymentFrequency,
              n \in PolicyNumbers}
    \cup {get_policy_response(c, p) : p \in PolicyIds}
    \cup {activate_policy_response(c, p) : p \in PolicyIds}
    \cup {create_claim_response(c, p, a, n) :
              p \in PolicyIds, a \in Amounts, n \in ClaimNumbers}
    \cup {create_payment_response(c, p, a, r) :
              p \in PolicyIds, a \in Amounts, r \in PaymentReferences}
    \cup {get_claim_response(c, cl) : cl \in ClaimIds}
    \cup {update_claim_response(c, cl, r.status, r.approved_amount, r.now) :
              cl \in ClaimIds, r \in ReviewInputs}

\* no step that changes a table is the step of a request whose caller is a
\* deactivated user
NoWriteByDeactivated ==
    vars' # vars =>
        \A c \in UserIds :
            (IsUser(c) /\ ~users[c].is_active) =>
              /\ \A u \in UserIds : ~deactivate_user(c, u)
              /\ \A m \in MonthlyPremiums, a \in AnnualPremiums :
                    ~create_plan(c, m, a)
              /\ \A pl \in PlanIds, sd \in StartDates, f \in PaymentFrequency,
                    n \in PolicyNumbers : ~create_policy(c, pl, sd, f, n)
              /\ \A p \in PolicyIds :
                    /\ ~activate_policy(c, p)
                    /\ \A a \in Amounts :
                          /\ \A n \in ClaimNumbers : ~create_claim(c, p, a, n)
                          /\ \A r \in PaymentReferences :
                                ~create_payment(c, p, a, r)
              /\ \A cl \in ClaimIds, r \in ReviewInputs :
                    ~update_claim(c, cl, r.status, r.approved_amount, r.now)

\* C28: a user whose is_active is false keeps it false in every step; every
\* endpoint behind authentication answers that user 400 "Inactive user" for
\* every input, the user's own admin role included, and changes no table;
\* login with the user's name and password still answers with a token.
C28_DeactivationPermanentAndBlocking ==
    /\ [](\A c \in 1..Len(users) :
              ~users[c].is_active
                  => /\ ProtectedResponses(c) = {InactiveUser}
                     /\ login_response(users[c].username, TRUE) = OK)
    /\ [][\A c \in 1..Len(users) :
              ~users[c].is_active
                  => /\ c <= Len(users')
                     /\ ~users'[c].is_active]_vars
    /\ [][NoWriteByDeactivated]_vars

\* the only user is the default admin, deactivated (by themself, there
\* being no other user), with a policy they created before
C28_Witness ==
    /\ Len(users) = 1 /\ users[1].role = "admin" /\ ~users[1].is_active
    /\ Len(policies) >= 1
    /\ activate_policy_response(1, 1) = InactiveUser
    /\ login_response(users[1].username, TRUE) = OK

----------------------------------------------------------------------------
(* C29 *)

\* a record of a table whose owner is not an admin is owned by the owner of
\* the policy it references
OwnedByPolicyOwner(table) ==
    \A i \in 1..Len(table) :
        users[table[i].user_id].role # "admin"
            => table[i].user_id = policies[table[i].policy_id].user_id

\* C29: create_claim and create_payment store the caller as the owner
\* (user_id) of the new record, and no step changes the owner of an existing
\* claim, payment or policy; so every claim and payment whose creator is
\* not an admin is owned by the owner of the policy it references, while a
\* record an admin creates on another user's policy is owned by the admin.
C29_OwnedByCreator ==
    /\ [](OwnedByPolicyOwner(claims) /\ OwnedByPolicyOwner(payments))
    /\ [][ /\ Kept(claims, claims', "user_id")
           /\ Kept(payments, payments', "user_id")
           /\ Kept(policies, policies', "user_id")
           /\ \A c \in Callers, p \in PolicyIds, a \in Amounts :
                 /\ \A n \in ClaimNumbers :
                       (claims' # claims /\ create_claim(c, p, a, n))
                           => claims'[Len(claims')].user_id = c
                 /\ \A r \in PaymentReferences :
                       (payments' # payments /\ create_payment(c, p, a, r))
                           => payments'[Len(payments')].user_id = c ]_vars

\* a claim the admin created on the policy of another user: its owner is
\* the admin, not the policy's owner
C29_Witness ==
    \E cl \in ClaimIds :
        /\ IsClaim(cl)
        /\ users[claims[cl].user_id].role = "admin"
        /\ policies[claims[cl].policy_id].user_id # claims[cl].user_id
        /\ users[policies[claims[cl].policy_id].user_id].role = "customer"

\* a claim created by a customer on their own policy
C29_OwnClaim ==
    \E cl \in ClaimIds :
        /\ IsClaim(cl)
        /\ users[claims[cl].user_id].role = "customer"
        /\ policies[claims[cl].policy_id].user_id = claims[cl].user_id

----------------------------------------------------------------------------
(* What the endpoints answer: the status and, when it is 200, the body, as
   functions of the caller and of the three tables of records *)

Database == [policies |-> policies, claims |-> claims, payments |-> payments]

Answer(status, body) == IF status = OK THEN <<OK, body>> ELSE <<status>>

\* the ids of the rows a query of the table returns to the caller: all of
\* them for an admin, the caller's own otherwise
Visible(caller, table) ==
    IF users[caller].role = "admin" THEN 1..Len(table)
    ELSE {i \in 1..Len(table) : table[i].user_id = caller}

\* a policy row serialised through response_model=PolicyResponse
PolicyResponse(id, policy) ==
    [id                |-> id,
     policy_number     |-> policy.policy_number,
     user_id           |-> policy.user_id,
     plan_id           |-> policy.plan_id,
     start_date        |-> policy.start_date,
     end_date          |-> policy.end_date,
     payment_frequency |-> policy.payment_frequency,
     premium_amount    |-> policy.premium_amount,
     status            |-> policy.status]

\* a payment row serialised through response_model=PaymentResponse
PaymentResponse(id, payment) ==
    [id                |-> id,
     payment_reference |-> payment.payment_reference,
     user_id           |-> payment.user_id,
     policy_id         |-> payment.policy_id,
     amount            |-> payment.amount,
     status            |-> payment.status]

\* get_policies returning every policy to every caller (a faulty variant,
\* which C30 must reject)
get_policies_answer_Unfiltered(caller, db) ==
    Answer(get_current_active_user(caller),
           {PolicyResponse(q, db.policies[q]) : q \in 1..Len(db.policies)})

\* GET /policies (the list in the order of the ids it carries)
get_policies_answer(caller, db) ==
    Answer(get_current_active_user(caller),
           {PolicyResponse(q, db.policies[q]) : q \in Visible(caller, db.policies)})

\* GET /policies/{policy_id}
get_policy_answer(caller, db, policy_id) ==
    IF get_current_active_user(caller) # OK
    THEN <<get_current_active_user(caller)>>
    ELSE IF policy_id \notin 1..Len(db.policies) THEN <<NotFound>>
    ELSE IF users[caller].role # "admin"
            /\ db.policies[policy_id].user_id # caller
    THEN <<Forbidden>>
    ELSE <<OK, PolicyResponse(policy_id, db.policies[policy_id])>>

\* GET /claims, with its optional filter on the status
get_claims_answer(caller, db, status) ==
    Answer(get_current_active_user(caller),
           {ClaimResponse(cl, db.claims[cl]) :
               cl \in {i \in Visible(caller, db.claims) :
                          status # None => db.claims[i].status = status}})

\* GET /claims/{claim_id}
get_claim_answer(caller, db, claim_id) ==
    IF get_current_active_user(caller) # OK
    THEN <<get_current_active_user(caller)>>
    ELSE IF claim_id \notin 1..Len(db.claims) THEN <<NotFound>>
    ELSE IF users[caller].role # "admin" /\ db.claims[claim_id].user_id # caller
    THEN <<Forbidden>>
    ELSE <<OK, ClaimResponse(claim_id, db.claims[claim_id])>>

\* PATCH /claims/{claim_id}: the claim as reviewed
update_claim_answer(caller, db, claim_id, status, approved_amount, now) ==
    IF get_current_active_user(caller) # OK
    THEN <<get_current_active_user(caller)>>
    ELSE IF claim_id \notin 1..Len(db.claims) THEN <<NotFound>>
    ELSE IF users[caller].role \notin {"admin", "agent"} THEN <<Forbidden>>
    ELSE <<OK, ClaimResponse(claim_id,
                   ApplyClaimUpdate(db.claims[claim_id], caller, status,
                                    approved_amount, now))>>

\* GET /payments
get_payments_answer(caller, db) ==
    Answer(get_current_active_user(caller),
           {PaymentResponse(pm, db.payments[pm]) :
               pm \in Visible(caller, db.payments)})

\* GET /dashboard/stats
get_dashboard_stats_answer(caller, db) ==
    Answer(get_current_active_user(caller),
        IF users[caller].role = "admin"
        THEN [total_users     |-> Len(users),
              total_policies  |-> Len(db.policies),
              active_policies |-> Cardinality({q \in 1..Len(db.policies) :
                                      db.policies[q].status = "active"}),
              total_claims    |-> Len(db.claims),
              pending_claims  |-> Cardinality({cl \in 1..Len(db.claims) :
                                      db.claims[cl].status = "submitted"}),
              total_revenue   |-> Len(db.payments) * 1000]
        ELSE [total_policies  |-> Cardinality(Visible(caller, db.policies)),
              active_policies |-> Cardinality({q \in Visible(caller, db.policies) :
                                      db.policies[q].status = "active"}),
              total_claims    |-> Cardinality(Visible(caller, db.claims)),
              total_payments  |-> Cardinality(Visible(caller, db.payments))])

\* the sum of a column over the rows of the given ids
RECURSIVE SumOf(_, _, _)
SumOf(table, ids, column) ==
    IF ids = {} THEN 0
    ELSE LET i == CHOOSE j \in ids : TRUE
         IN  table[i][column] + SumOf(table, ids \ {i}, column)

\* GET /reports/claims-summary, without its optional filter on the dates
get_claims_summary_answer(caller, db) ==
    LET ids == Visible(caller, db.claims)
    IN  Answer(get_current_active_user(caller),
            [total_claims          |-> Cardinality(ids),
             total_claimed_amount  |-> SumOf(db.claims, ids, "claim_amount"),
             total_approved_amount |-> SumOf(db.claims, ids, "approved_amount"),
             by_status |-> [st \in ClaimStatus |->
                 Cardinality({cl \in ids : db.claims[cl].status = st})]])

----------------------------------------------------------------------------
(* C30 *)

\* a table without the rows of other users that follow the caller's last
OthersTrimmed(table, caller) ==
    LET own  == {i \in 1..Len(table) : table[i].user_id = caller}
        last == IF own = {} THEN 0
                ELSE CHOOSE i \in own : \A j \in own : j <= i
    IN  SubSeq(table, 1, last)

\* a table whose rows of other users hold other values
OthersAltered(table, caller, Other(_)) ==
    [i \in 1..Len(table) |->
        IF table[i].user_id = caller THEN table[i] ELSE Other(table[i])]

OtherPolicy(policy) ==
    [policy EXCEPT !.status = IF @ = "active" THEN "pending" ELSE "active",
                   !.premium_amount = @ + 1,
                   !.start_date = @ + 1,
                   !.end_date = @ + 1]

OtherClaim(claim) ==
    [claim EXCEPT !.status = IF @ = "submitted" THEN "approved" ELSE "submitted",
                  !.claim_amount = @ + 1,
                  !.approved_amount = @ + 1]

OtherPayment(payment) == [payment EXCEPT !.amount = @ + 1]

\* databases that differ from the current one only in the records of users
\* other than the caller: in what those records hold, or in whether the
\* latest of them exist
OthersVariants(caller) ==
    [policies : {policies, OthersTrimmed(policies, caller),
                 OthersAltered(policies, caller, OtherPolicy)},
     claims   : {claims, OthersTrimmed(claims, caller),
                 OthersAltered(claims, caller, OtherClaim)},
     payments : {payments, OthersTrimmed(payments, caller),
                 OthersAltered(payments, caller, OtherPayment)}]

\* the answers of the list, summary and dashboard operations to the caller
ListAnswers(caller, db) ==
    << get_policies_answer(caller, db),
       [st \in ClaimStatus \cup {None} |-> get_claims_answer(caller, db, st)],
       get_payments_answer(caller, db),
       get_claims_summary_answer(caller, db),
       get_dashboard_stats_answer(caller, db) >>

\* two answers that are the same, or are 404 and 403
SameButExistence(a, b) == a = b \/ {a[1], b[1]} = {NotFound, Forbidden}

IsCustomerOrProvider(c) ==
    IsUser(c) /\ users[c].role \in {"customer", "provider"}

\* the statement of C30 as written: a customer or provider gets identical
\* answers from the list, summary, dashboard and claim review operations in
\* databases that differ only in other users' records, and answers that are
\* identical or 404 against 403 from get policy and get claim by id.
C30_OnlyGetByIdTellsExistence ==
    \A c \in UserIds :
        IsCustomerOrProvider(c) =>
            \A db \in OthersVariants(c) :
                /\ ListAnswers(c, db) = ListAnswers(c, Database)
                /\ \A p \in PolicyIds :
                      SameButExistence(get_policy_answer(c, db, p),
                                       get_policy_answer(c, Database, p))
                /\ \A cl \in ClaimIds :
                      SameButExistence(get_claim_answer(c, db, cl),
                                       get_claim_answer(c, Database, cl))
                /\ \A cl \in ClaimIds, r \in ReviewInputs :
                      update_claim_answer(c, db, cl, r.status,
                                          r.approved_amount, r.now)
                        = update_claim_answer(c, Database, cl, r.status,
                                              r.approved_amount, r.now)

\* the answers on the current database are those of the handlers
AnswersOfHandlers ==
    \A c \in Callers :
        /\ get_policies_answer(c, Database)[1] = get_policies_response(c)
        /\ get_claims_answer(c, Database, None)[1] = get_claims_response(c)
        /\ get_payments_answer(c, Database)[1] = get_payments_response(c)
        /\ get_claims_summary_answer(c, Database)[1]
              = get_claims_summary_response(c)
        /\ get_dashboard_stats_answer(c, Database)[1]
              = get_dashboard_stats_response(c)
        /\ \A p \in PolicyIds :
              get_policy_answer(c, Database, p)[1] = get_policy_response(c, p)
        /\ \A cl \in ClaimIds :
              /\ get_claim_answer(c, Database, cl)[1] = get_claim_response(c, cl)
              /\ \A r \in ReviewInputs :
                    update_claim_answer(c, Database, cl, r.status,
                                        r.approved_amount, r.now)[1]
                      = update_claim_response(c, cl, r.status,
                                              r.approved_amount, r.now)

\* C30 (amended): a customer or provider gets identical answers from list
\* policies, list claims, list payments, the claims summary and the
\* dashboard in databases that differ only in other users' records, and
\* every record in those answers is the caller's own; get policy by id, get
\* claim by id and claim review give answers that are identical or differ
\* only in being 404 for an id that does not exist and 403 for one that
\* does, and claim review never answers such a caller 200.
C30_OnlyExistenceByIdLeaks ==
    /\ AnswersOfHandlers
    /\ \A c \in UserIds :
          IsCustomerOrProvider(c) =>
            /\ \A db \in OthersVariants(c) :
                  /\ ListAnswers(c, db) = ListAnswers(c, Database)
                  /\ \A p \in PolicyIds :
                        SameButExistence(get_policy_answer(c, db, p),
                                         get_policy_answer(c, Database, p))
                  /\ \A cl \in ClaimIds :
                        SameButExistence(get_claim_answer(c, db, cl),
                                         get_claim_answer(c, Database, cl))
                  /\ \A cl \in ClaimIds, r \in ReviewInputs :
                        SameButExistence(
                            update_claim_answer(c, db, cl, r.status,
                                                r.approved_amount, r.now),
                            update_claim_answer(c, Database, cl, r.status,
                                                r.approved_amount, r.now))
            /\ users[c].is_active =>
                  /\ \A row \in get_policies_answer(c, Database)[2]
                               \cup get_claims_answer(c, Database, None)[2]
                               \cup get_payments_answer(c, Database)[2] :
                        row.user_id = c
                  /\ \A p \in PolicyIds :
                        get_policy_answer(c, Database, p)[1] = OK
                            => get_policy_answer(c, Database, p)[2].user_id = c
                  /\ \A cl \in ClaimIds :
                        /\ get_claim_answer(c, Database, cl)[1] = OK
                            => get_claim_answer(c, Database, cl)[2].user_id = c
                        /\ \A r \in ReviewInputs :
                              update_claim_answer(c, Database, cl, r.status,
                                  r.approved_amount, r.now)[1] # OK

\* an active customer who owns policy 1 and lists exactly that policy while
\* policy 2 is another user's, and who is answered 403 for policy 2
C30_Witness ==
    \E c \in UserIds :
        /\ IsActiveUser(c) /\ users[c].role = "customer"
        /\ Len(policies) = 2
        /\ policies[1].user_id = c /\ policies[2].user_id # c
        /\ get_policies_answer(c, Database)
              = <<OK, {PolicyResponse(1, policies[1])}>>
        /\ get_policy_answer(c, Database, 2) = <<Forbidden>>
        /\ get_policy_answer(c, [Database EXCEPT
                                    !.policies = OthersTrimmed(policies, c)], 2)
              = <<NotFound>>

====
